---- MODULE Spec2Model ----
(***************************************************************************)
(* show-my-errors: an AnnotationList over a source string.                 *)
(*                                                                         *)
(* A source string is a sequence of characters; its bytes are the UTF-8    *)
(* encoding of those characters.  A byte is written as a one-token string: *)
(* "a", "\n", and "c3" "a9" for the two bytes of U+00E9.  An Option is a   *)
(* sequence of length 0 (None) or 1 (Some).                                *)
(***************************************************************************)
EXTENDS Integers, Sequences, FiniteSets

\* ------------------------------------------------------------------ bounds
\* longest source string, in characters
MaxLen == 4
\* greatest byte offset a caller passes as a range start or end
MaxOff == 3
\* most insertion calls (add, info, warning, error) made on one list
MaxCalls == 2
\* the sink's calls 1..MaxFailAt may be the one that fails
MaxFailAt == 2

\* ------------------------------------------------------ strings and bytes
NL == "\n"
\* U+00E9, a character of two UTF-8 bytes
EAcute == "e9"
Chars == {"a", NL, EAcute}

Utf8(c) == IF c = EAcute THEN <<"c3", "a9">> ELSE <<c>>
ContinuationBytes == {"a9"}

RECURSIVE Bytes(_)
Bytes(s) == IF s = <<>> THEN <<>> ELSE Utf8(Head(s)) \o Bytes(Tail(s))

RECURSIVE StringsOfLen(_)
StringsOfLen(n) ==
    IF n = 0 THEN {<<>>}
    ELSE {<<c>> \o s : c \in Chars, s \in StringsOfLen(n - 1)}

Strings == UNION {StringsOfLen(n) : n \in 0..MaxLen}

None == <<>>
Some(x) == <<x>>

\* str::is_char_boundary on the bytes b of a string, index i 0-based
IsCharBoundary(b, i) ==
    \/ i = 0
    \/ i = Len(b)
    \/ i < Len(b) /\ b[i + 1] \notin ContinuationBytes

\* &string[from..to] panics unless from <= to <= len and both are boundaries
SliceOk(b, from, to) ==
    /\ from <= to
    /\ to <= Len(b)
    /\ IsCharBoundary(b, from)
    /\ IsCharBoundary(b, to)

Slice(b, from, to) == SubSeq(b, from + 1, to)

\* --------------------------------------------------------- AnnotationList::new
\* string.chars().enumerate().filter(c == '\n').flat_map(idx, idx + 1):
\* idx counts characters, i is the 1-based position of the character in s
RECURSIVE NewlineBounds(_, _)
NewlineBounds(s, i) ==
    IF i > Len(s) THEN <<>>
    ELSE (IF s[i] = NL THEN <<i - 1, i>> ELSE <<>>) \o NewlineBounds(s, i + 1)

Linebreaks(s) == <<0>> \o NewlineBounds(s, 1) \o <<Len(Bytes(s))>>

\* linebreaks.chunks(2): chunk k is <<bounds[0], bounds[1]>>
Chunks2(lb) == [k \in 1..(Len(lb) \div 2) |-> <<lb[2 * k - 1], lb[2 * k]>>]

NewPanics(s) ==
    \E k \in DOMAIN Chunks2(Linebreaks(s)) :
        ~SliceOk(Bytes(s), Chunks2(Linebreaks(s))[k][1], Chunks2(Linebreaks(s))[k][2])

NewLines(s) ==
    [k \in DOMAIN Chunks2(Linebreaks(s)) |->
        [start |-> Chunks2(Linebreaks(s))[k][1],
         content |-> Slice(Bytes(s), Chunks2(Linebreaks(s))[k][1],
                           Chunks2(Linebreaks(s))[k][2]),
         annotations |-> <<>>]]

\* ------------------------------------------------------------------ Result
\* Ok(..), or an Error variant with its two fields
Ok == [kind |-> "Ok"]
Err(kind, range) == [kind |-> kind, start |-> range.start, end |-> range.end]

\* ------------------------------------------------------------- Annotation
Severities == {"Info", "Warning", "Error"}
\* what a caller passes as <<header, text>>: both None, or both Some
Messages == {<<None, None>>, <<Some(<<"h">>), Some(<<"t">>)>>}
Offsets == 0..MaxOff
Ranges == [start : Offsets, end : Offsets]

\* Annotation::new: an [ok, err, value] result
AnnotationNew(range, severity, header, text) ==
    IF range.end < range.start
    THEN [ok |-> FALSE, err |-> Err("InvalidRange", range)]
    ELSE [ok |-> TRUE,
          value |-> [range |-> range, severity |-> severity,
                     header |-> header, text |-> text]]

AnnotationInfo(range, header, text) == AnnotationNew(range, "Info", header, text)
AnnotationWarning(range, header, text) == AnnotationNew(range, "Warning", header, text)
AnnotationError(range, header, text) == AnnotationNew(range, "Error", header, text)

\* every Annotation value a caller can hold: range is private, so each one
\* came out of Annotation::new
Annotations ==
    {AnnotationNew(r, s, m[1], m[2]).value :
        r \in {x \in Ranges : x.start <= x.end}, s \in Severities, m \in Messages}

\* ------------------------------------------------------ AnnotatedLine::add
\* LineAdd without the length check
LineAdd_NoLengthCheck(line, annotation) ==
    [result |-> Ok,
     line |-> [line EXCEPT !.annotations = Append(@, annotation)]]

\* LineAdd pushing before the length check
LineAdd_PushThenCheck(line, annotation) ==
    [result |-> IF annotation.range.end - annotation.range.start > Len(line.content)
                THEN Err("MultilineRange", annotation.range) ELSE Ok,
     line |-> [line EXCEPT !.annotations = Append(@, annotation)]]

\* LineAdd inserting at the front
LineAdd_PushFront(line, annotation) ==
    IF annotation.range.end - annotation.range.start > Len(line.content)
    THEN [result |-> Err("MultilineRange", annotation.range), line |-> line]
    ELSE [result |-> Ok,
          line |-> [line EXCEPT !.annotations = <<annotation>> \o @]]

LineAdd(line, annotation) ==
    IF annotation.range.end - annotation.range.start > Len(line.content)
    THEN [result |-> Err("MultilineRange", annotation.range), line |-> line]
    ELSE [result |-> Ok,
          line |-> [line EXCEPT !.annotations = Append(@, annotation)]]

\* ----------------------------------------------------- AnnotationList::add
\* slice::binary_search_by(|line| line.start.cmp(&target)) over 0-based
\* indexes: [found, idx], idx the match or the insertion point
RECURSIVE BinarySearchFrom(_, _, _, _)
BinarySearchFrom(ls, target, left, right) ==
    IF left >= right THEN [found |-> FALSE, idx |-> left]
    ELSE LET mid == left + ((right - left) \div 2)
         IN  IF ls[mid + 1].start < target
             THEN BinarySearchFrom(ls, target, mid + 1, right)
             ELSE IF ls[mid + 1].start > target
             THEN BinarySearchFrom(ls, target, left, mid)
             ELSE [found |-> TRUE, idx |-> mid]

BinarySearch(ls, target) == BinarySearchFrom(ls, target, 0, Len(ls))

\* the match arm of add: [ok, idx], ok FALSE where the code is unreachable!()
LineIdx(ls, range) ==
    LET found == BinarySearch(ls, range.start)
    IN  IF found.found THEN [ok |-> TRUE, idx |-> found.idx]
        ELSE IF found.idx > 0 THEN [ok |-> TRUE, idx |-> found.idx - 1]
        ELSE [ok |-> FALSE, idx |-> 0]

\* ListAdd comparing range.start with the line's end by > instead of >=
ListAdd_StartAtLineEnd(ls, annotation) ==
    LET range == annotation.range
        at == LineIdx(ls, range)
        line == ls[at.idx + 1]
    IN  IF ~at.ok THEN [result |-> [kind |-> "Panic"], lines |-> ls]
        ELSE IF range.start > line.start + Len(line.content)
        THEN [result |-> Err("AfterStringEnd", range), lines |-> ls]
        ELSE [result |-> LineAdd(line, annotation).result,
              lines |-> [ls EXCEPT ![at.idx + 1] = LineAdd(line, annotation).line]]

ListAdd(ls, annotation) ==
    LET range == annotation.range
        at == LineIdx(ls, range)
        line == ls[at.idx + 1]
    IN  IF ~at.ok THEN [result |-> [kind |-> "Panic"], lines |-> ls]
        ELSE IF range.start >= line.start + Len(line.content)
        THEN [result |-> Err("AfterStringEnd", range), lines |-> ls]
        ELSE [result |-> LineAdd(line, annotation).result,
              lines |-> [ls EXCEPT ![at.idx + 1] = LineAdd(line, annotation).line]]

\* info / warning / error: Annotation::<severity>(range, header, text)? then add
ListAddNew(ls, made) ==
    IF made.ok THEN ListAdd(ls, made.value)
    ELSE [result |-> made.err, lines |-> ls]

ListInfo(ls, range, header, text) == ListAddNew(ls, AnnotationInfo(range, header, text))
ListWarning(ls, range, header, text) == ListAddNew(ls, AnnotationWarning(range, header, text))
ListError(ls, range, header, text) == ListAddNew(ls, AnnotationError(range, header, text))

\* -------------------------------------------------------------- Stylesheet
\* a ColorSpec is the sequence of the attributes set on it
Monochrome ==
    [info |-> <<>>, warning |-> <<>>, error |-> <<>>,
     linenr |-> <<>>, filename |-> <<>>, content |-> <<>>]

Colored ==
    [info |-> <<"bold">>,
     warning |-> <<"bold", "fg:yellow">>,
     error |-> <<"bold", "fg:red">>,
     linenr |-> <<"bold", "fg:blue">>,
     filename |-> <<"bold">>,
     content |-> <<>>]

Stylesheets == {Colored}

BySeverity(stylesheet, severity) ==
    CASE severity = "Info" -> stylesheet.info
      [] severity = "Warning" -> stylesheet.warning
      [] severity = "Error" -> stylesheet.error

\* ---------------------------------------------------- AnnotationList::show
\* Display for Severity
SeverityDisplay(severity) ==
    CASE severity = "Info" -> <<"i", "n", "f", "o">>
      [] severity = "Warning" -> <<"w", "a", "r", "n", "i", "n", "g">>
      [] severity = "Error" -> <<"e", "r", "r", "o", "r">>

Digits == <<"0", "1", "2", "3", "4", "5", "6", "7", "8", "9">>

\* usize::to_string
RECURSIVE UsizeToString(_)
UsizeToString(n) ==
    IF n < 10 THEN <<Digits[n + 1]>>
    ELSE UsizeToString(n \div 10) \o <<Digits[(n % 10) + 1]>>

\* the calls show makes on its sink
Write(buf) == [op |-> "write", arg |-> buf]
SetColor(spec) == [op |-> "set_color", arg |-> spec]
Reset == [op |-> "reset", arg |-> <<>>]

\* print_n: count calls of stream.write(buf)
PrintN(buf, count) == [i \in 1..count |-> Write(buf)]

\* AnnotationOps writing the padding newline before every block
AnnotationOps_AlwaysPad(line, idx, annotation, fname, stylesheet, first_output) ==
    LET range == annotation.range
        severity_color == BySeverity(stylesheet, annotation.severity)
        linenr == UsizeToString(idx + 1)
        nrcol_width == Len(linenr) + 2
    IN  <<Write(<<NL>>),
          SetColor(severity_color),
          Write(SeverityDisplay(annotation.severity) \o <<":">>)>>
        \o (IF annotation.header # None
            THEN <<Write(<<" ">> \o annotation.header[1] \o <<NL>>)>>
            ELSE <<Write(<<NL>>)>>)
        \o <<SetColor(stylesheet.linenr)>>
        \o PrintN(<<" ">>, Len(linenr) + 1)
        \o <<Write(<<"-", "-", ">", " ">>),
             SetColor(stylesheet.filename),
             Write(fname \o <<":">> \o UsizeToString(idx + 1) \o <<":">>
                   \o UsizeToString(range.start - line.start + 1) \o <<NL>>),
             SetColor(stylesheet.linenr)>>
        \o PrintN(<<" ">>, nrcol_width)
        \o <<Write(<<"|", NL, " ">> \o UsizeToString(idx + 1) \o <<" ", "|", " ">>),
             SetColor(stylesheet.content),
             Write(line.content \o <<NL>>),
             SetColor(stylesheet.linenr)>>
        \o PrintN(<<" ">>, nrcol_width)
        \o <<Write(<<"|">>)>>
        \o (IF range.end - range.start # 0
            THEN <<SetColor(severity_color)>>
                 \o PrintN(<<" ">>, range.start - line.start + 1)
                 \o PrintN(<<"^">>, range.end - range.start)
                 \o (IF annotation.text # None
                     THEN <<Write(<<" ">> \o annotation.text[1])>>
                     ELSE <<>>)
            ELSE <<>>)
        \o <<Write(<<NL>>), Reset>>

\* AnnotationOps writing the body text whether or not the range is empty
AnnotationOps_TextOnEmptyRange(line, idx, annotation, fname, stylesheet, first_output) ==
    LET range == annotation.range
        severity_color == BySeverity(stylesheet, annotation.severity)
        linenr == UsizeToString(idx + 1)
        nrcol_width == Len(linenr) + 2
    IN  (IF first_output THEN <<>> ELSE <<Write(<<NL>>)>>)
        \o <<SetColor(severity_color),
             Write(SeverityDisplay(annotation.severity) \o <<":">>)>>
        \o (IF annotation.header # None
            THEN <<Write(<<" ">> \o annotation.header[1] \o <<NL>>)>>
            ELSE <<Write(<<NL>>)>>)
        \o <<SetColor(stylesheet.linenr)>>
        \o PrintN(<<" ">>, Len(linenr) + 1)
        \o <<Write(<<"-", "-", ">", " ">>),
             SetColor(stylesheet.filename),
             Write(fname \o <<":">> \o UsizeToString(idx + 1) \o <<":">>
                   \o UsizeToString(range.start - line.start + 1) \o <<NL>>),
             SetColor(stylesheet.linenr)>>
        \o PrintN(<<" ">>, nrcol_width)
        \o <<Write(<<"|", NL, " ">> \o UsizeToString(idx + 1) \o <<" ", "|", " ">>),
             SetColor(stylesheet.content),
             Write(line.content \o <<NL>>),
             SetColor(stylesheet.linenr)>>
        \o PrintN(<<" ">>, nrcol_width)
        \o <<Write(<<"|">>)>>
        \o (IF range.end - range.start # 0
            THEN <<SetColor(severity_color)>>
                 \o PrintN(<<" ">>, range.start - line.start + 1)
                 \o PrintN(<<"^">>, range.end - range.start)
            ELSE <<>>)
        \o (IF annotation.text # None
            THEN <<Write(<<" ">> \o annotation.text[1])>>
            ELSE <<>>)
        \o <<Write(<<NL>>), Reset>>

\* the body of show's inner loop for one annotation of line idx (0-based)
AnnotationOps(line, idx, annotation, fname, stylesheet, first_output) ==
    LET range == annotation.range
        severity_color == BySeverity(stylesheet, annotation.severity)
        linenr == UsizeToString(idx + 1)
        nrcol_width == Len(linenr) + 2
    IN  (IF first_output THEN <<>> ELSE <<Write(<<NL>>)>>)
        \o <<SetColor(severity_color),
             Write(SeverityDisplay(annotation.severity) \o <<":">>)>>
        \o (IF annotation.header # None
            THEN <<Write(<<" ">> \o annotation.header[1] \o <<NL>>)>>
            ELSE <<Write(<<NL>>)>>)
        \o <<SetColor(stylesheet.linenr)>>
        \o PrintN(<<" ">>, Len(linenr) + 1)
        \o <<Write(<<"-", "-", ">", " ">>),
             SetColor(stylesheet.filename),
             Write(fname \o <<":">> \o UsizeToString(idx + 1) \o <<":">>
                   \o UsizeToString(range.start - line.start + 1) \o <<NL>>),
             SetColor(stylesheet.linenr)>>
        \o PrintN(<<" ">>, nrcol_width)
        \o <<Write(<<"|", NL, " ">> \o UsizeToString(idx + 1) \o <<" ", "|", " ">>),
             SetColor(stylesheet.content),
             Write(line.content \o <<NL>>),
             SetColor(stylesheet.linenr)>>
        \o PrintN(<<" ">>, nrcol_width)
        \o <<Write(<<"|">>)>>
        \o (IF range.end - range.start # 0
            THEN <<SetColor(severity_color)>>
                 \o PrintN(<<" ">>, range.start - line.start + 1)
                 \o PrintN(<<"^">>, range.end - range.start)
                 \o (IF annotation.text # None
                     THEN <<Write(<<" ">> \o annotation.text[1])>>
                     ELSE <<>>)
            ELSE <<>>)
        \o <<Write(<<NL>>), Reset>>

\* ShowFrom leaving a line after its first annotation
RECURSIVE ShowFrom_FirstOnly(_, _, _, _, _, _)
ShowFrom_FirstOnly(ls, fname, stylesheet, idx, k, first_output) ==
    IF idx >= Len(ls) THEN <<>>
    ELSE IF k > Len(ls[idx + 1].annotations)
    THEN ShowFrom_FirstOnly(ls, fname, stylesheet, idx + 1, 1, first_output)
    ELSE AnnotationOps(ls[idx + 1], idx, ls[idx + 1].annotations[k],
                       fname, stylesheet, first_output)
         \o ShowFrom_FirstOnly(ls, fname, stylesheet, idx + 1, 1, FALSE)

\* the two loops of show, from annotation k (1-based) of line idx (0-based)
RECURSIVE ShowFrom(_, _, _, _, _, _)
ShowFrom(ls, fname, stylesheet, idx, k, first_output) ==
    IF idx >= Len(ls) THEN <<>>
    ELSE IF k > Len(ls[idx + 1].annotations)
    THEN ShowFrom(ls, fname, stylesheet, idx + 1, 1, first_output)
    ELSE AnnotationOps(ls[idx + 1], idx, ls[idx + 1].annotations[k],
                       fname, stylesheet, first_output)
         \o ShowFrom(ls, fname, stylesheet, idx, k + 1, FALSE)

ShowOps(ls, fname, stylesheet) == ShowFrom(ls, fname, stylesheet, 0, 1, TRUE)

\* show on a sink whose call number failAt fails (0: none does): every call
\* is followed by ?, so the first failure is the last call made
ShowRun(ops, failAt) ==
    IF failAt = 0 \/ failAt > Len(ops)
    THEN [result |-> Ok,
          stream |-> [i \in 1..Len(ops) |-> [call |-> ops[i], ok |-> TRUE]]]
    ELSE [result |-> [kind |-> "IoError"],
          stream |-> [i \in 1..failAt |-> [call |-> ops[i], ok |-> i < failAt]]]

\* ------------------------------------------------------------------- state
VARIABLES
    pc,        \* "new": not yet constructed; "ready"; "panicked"
    string,    \* the source string the list borrows
    filename,  \* AnnotationList.filename
    lines,     \* AnnotationList.lines
    adds,      \* the annotations attached so far, in the order of the calls
    ncalls,    \* how many insertion calls were made
    result,    \* what that operation returned
    stream     \* the calls show made on its sink

vars == <<pc, string, filename, lines, adds, ncalls, result, stream>>

Filenames == {<<"f">>}

Init ==
    /\ pc = "new"
    /\ string \in Strings
    /\ filename \in Filenames
    /\ lines = <<>>
    /\ adds = <<>>
    /\ ncalls = 0
    /\ result = Ok
    /\ stream = <<>>

New ==
    /\ pc = "new"
    /\ IF NewPanics(string)
       THEN /\ pc' = "panicked"
            /\ result' = [kind |-> "Panic"]
            /\ lines' = lines
       ELSE /\ pc' = "ready"
            /\ result' = Ok
            /\ lines' = NewLines(string)
    /\ UNCHANGED <<string, filename, adds, ncalls, stream>>

Apply(out) ==
    /\ pc = "ready"
    /\ ncalls < MaxCalls
    /\ ncalls' = ncalls + 1
    /\ result' = out.result
    /\ lines' = out.lines
    /\ pc' = IF out.result.kind = "Panic" THEN "panicked" ELSE pc
    /\ UNCHANGED <<string, filename, stream>>

Add ==
    \E annotation \in Annotations :
        /\ Apply(ListAdd(lines, annotation))
        /\ adds' = IF ListAdd(lines, annotation).result = Ok
                   THEN Append(adds, annotation) ELSE adds

Info ==
    \E range \in Ranges, message \in Messages :
        /\ Apply(ListInfo(lines, range, message[1], message[2]))
        /\ adds' = IF ListInfo(lines, range, message[1], message[2]).result = Ok
                   THEN Append(adds, [range |-> range, severity |-> "Info",
                                      header |-> message[1], text |-> message[2]])
                   ELSE adds

Warning ==
    \E range \in Ranges, message \in Messages :
        /\ Apply(ListWarning(lines, range, message[1], message[2]))
        /\ adds' = IF ListWarning(lines, range, message[1], message[2]).result = Ok
                   THEN Append(adds, [range |-> range, severity |-> "Warning",
                                      header |-> message[1], text |-> message[2]])
                   ELSE adds

Error ==
    \E range \in Ranges, message \in Messages :
        /\ Apply(ListError(lines, range, message[1], message[2]))
        /\ adds' = IF ListError(lines, range, message[1], message[2]).result = Ok
                   THEN Append(adds, [range |-> range, severity |-> "Error",
                                      header |-> message[1], text |-> message[2]])
                   ELSE adds

\* show borrows the list and takes a fresh sink; the model renders last
Show ==
    \E stylesheet \in Stylesheets, failAt \in 0..MaxFailAt :
        /\ pc = "ready"
        /\ pc' = "shown"
        /\ LET run == ShowRun(ShowOps(lines, filename, stylesheet), failAt)
           IN  /\ result' = run.result
               /\ stream' = run.stream
        /\ UNCHANGED <<string, filename, lines, adds, ncalls>>

Next == New \/ Add \/ Info \/ Warning \/ Error \/ Show

Spec == Init /\ [][Next]_vars

\* ================================================================== claims
Constructed == pc \in {"ready", "shown"}

\* the 1-based index of the line with the greatest start <= offset
Owner(ls, offset) ==
    CHOOSE i \in DOMAIN ls :
        /\ ls[i].start <= offset
        /\ \A j \in DOMAIN ls : ls[j].start <= offset => ls[j].start <= ls[i].start

InContent(line, offset) ==
    line.start <= offset /\ offset < line.start + Len(line.content)

RangeLen(range) == range.end - range.start

\* the lines of a text: the byte runs between its newline bytes, each with
\* the byte offset it starts at
RECURSIVE SplitLines(_, _)
SplitLines(b, from) ==
    LET newlines == {i \in (from + 1)..Len(b) : b[i] = NL}
    IN  IF newlines = {}
        THEN <<[start |-> from, content |-> SubSeq(b, from + 1, Len(b))]>>
        ELSE LET i == CHOOSE i \in newlines : \A j \in newlines : i <= j
             IN  <<[start |-> from, content |-> SubSeq(b, from + 1, i - 1)]>>
                 \o SplitLines(b, i)

\* C1: every annotation attached to a line lies entirely inside that line's
\* content: line.start <= range.start and range.end <= line.start + len.
C1_AnnotationsInsideLine ==
    \A i \in DOMAIN lines :
        \A k \in DOMAIN lines[i].annotations :
            LET range == lines[i].annotations[k].range
            IN  /\ lines[i].start <= range.start
                /\ range.end <= lines[i].start + Len(lines[i].content)

\* C2: new produces one record per line of the text, in text order, each with
\* the text between consecutive newlines as content (no newline in it) and
\* the byte offset of its first content byte as start.
C2_LinesAreTheTextLines ==
    Constructed =>
        /\ [k \in DOMAIN lines |->
               [start |-> lines[k].start, content |-> lines[k].content]]
           = SplitLines(Bytes(string), 0)
        /\ \A k \in DOMAIN lines :
               \A i \in DOMAIN lines[k].content : lines[k].content[i] # NL

\* C3: new always succeeds: it never panics while slicing the text.
C3_NewNeverPanics == ~(pc = "panicked" /\ ncalls = 0)

\* C4 as stated: whenever the range's length exceeds the content length of
\* its owning line, add fails with MultilineRange(start, end).
C4_LongRangeIsMultiline ==
    pc = "ready" =>
        \A annotation \in Annotations :
            RangeLen(annotation.range)
                > Len(lines[Owner(lines, annotation.range.start)].content)
            => ListAdd(lines, annotation).result
               = Err("MultilineRange", annotation.range)

\* C4 amended: whenever the range starts inside the content of its owning
\* line and its length exceeds that content's length, add fails with
\* MultilineRange(start, end).
C4_LongRangeInsideIsMultiline ==
    pc = "ready" =>
        \A annotation \in Annotations :
            LET line == lines[Owner(lines, annotation.range.start)]
            IN  /\ InContent(line, annotation.range.start)
                /\ RangeLen(annotation.range) > Len(line.content)
                => ListAdd(lines, annotation).result
                   = Err("MultilineRange", annotation.range)

\* an insertion call returned MultilineRange for a range that starts inside
\* its owning line and is longer than that line
C4_Witness ==
    /\ pc = "ready" /\ ncalls > 0
    /\ result.kind = "MultilineRange"
    /\ InContent(lines[Owner(lines, result.start)], result.start)
    /\ result.end - result.start > Len(lines[Owner(lines, result.start)].content)

InsertionErrors == {"InvalidRange", "AfterStringEnd", "MultilineRange"}

IsPrefix(short, long) ==
    Len(short) <= Len(long) /\ SubSeq(long, 1, Len(short)) = short

\* what C6 says of one step taken on a constructed list
C6_Step ==
    pc # "new" =>
        /\ filename' = filename
        /\ DOMAIN lines' = DOMAIN lines
        /\ \A i \in DOMAIN lines :
               /\ lines'[i].start = lines[i].start
               /\ lines'[i].content = lines[i].content
               /\ IsPrefix(lines[i].annotations, lines'[i].annotations)
        /\ (ncalls' = ncalls + 1 /\ result'.kind \in InsertionErrors)
           => lines' = lines
        /\ (ncalls' = ncalls + 1 /\ result' = Ok)
           => \E i \in DOMAIN lines :
                  /\ Len(lines'[i].annotations) = Len(lines[i].annotations) + 1
                  /\ \A j \in DOMAIN lines : j # i => lines'[j] = lines[j]

\* C6: an insertion call that returns InvalidRange, AfterStringEnd or
\* MultilineRange leaves every line and the filename as they were; one that
\* succeeds appends exactly one annotation to one line and changes nothing
\* else; no step removes an annotation or changes a start or a content.
C6_FailedInsertionChangesNothing == [][C6_Step]_vars

\* an insertion call failed on a list that already held an annotation
C6_Witness ==
    /\ pc = "ready" /\ ncalls = 2
    /\ result.kind \in InsertionErrors
    /\ Len(adds) = 1
    /\ \E i \in DOMAIN lines : Len(lines[i].annotations) = 1

\* C7: each line's annotation sequence is the subsequence of the attached
\* annotations (as their constructors build them) whose range starts at or
\* after that line's start and before the next line's, in the order of the
\* calls; the owning line is unique.
C7_LinesHoldTheirAddsInOrder ==
    Constructed =>
        /\ \A i, j \in DOMAIN lines : i # j => lines[i].start # lines[j].start
        /\ \A i \in DOMAIN lines :
               lines[i].annotations
               = SelectSeq(adds, LAMBDA a : Owner(lines, a.range.start) = i)

\* two different annotations were attached to one line that is not the
\* first, and the list has another line with content
C7_Witness ==
    /\ pc = "ready"
    /\ \E i \in DOMAIN lines :
           /\ i > 1
           /\ Len(lines[i].annotations) = 2
           /\ lines[i].annotations[1] # lines[i].annotations[2]
           /\ \E j \in DOMAIN lines : j # i /\ lines[j].content # <<>>

\* ------------------------------------------------ the sink's record, read
Rendered == pc = "shown" /\ result = Ok

\* the calls made on the sink cut into blocks, a block ending with the reset
\* call that closes it: the blocks of the calls from index from on, i being
\* the call looked at
RECURSIVE BlocksFrom(_, _)
BlocksFrom(from, i) ==
    IF i > Len(stream) THEN <<>>
    ELSE IF stream[i].call.op = "reset"
    THEN <<[k \in 1..(i - from + 1) |-> stream[from + k - 1].call]>>
         \o BlocksFrom(i + 1, i + 1)
    ELSE BlocksFrom(from, i + 1)

Blocks == BlocksFrom(1, 1)

\* no call follows the last block
EndsWithReset == stream # <<>> => stream[Len(stream)].call.op = "reset"

RECURSIVE FromFirstSetColor(_)
FromFirstSetColor(calls) ==
    IF calls = <<>> \/ Head(calls).op = "set_color" THEN calls
    ELSE FromFirstSetColor(Tail(calls))

\* the write calls among a sequence of calls that write at least one byte
Writes(calls) == SelectSeq(calls, LAMBDA c : c.op = "write" /\ c.arg # <<>>)

\* of the bytes a sequence of calls writes: the first, the last, and the one
\* before the last ("" where there is none)
FirstWritten(calls) ==
    IF Writes(calls) = <<>> THEN "" ELSE Head(Writes(calls)).arg[1]

LastWritten(calls) ==
    LET w == Writes(calls)
    IN  IF w = <<>> THEN "" ELSE w[Len(w)].arg[Len(w[Len(w)].arg)]

BeforeLastWritten(calls) ==
    LET w == Writes(calls)
        n == Len(w)
    IN  IF n = 0 THEN ""
        ELSE IF Len(w[n].arg) >= 2 THEN w[n].arg[Len(w[n].arg) - 1]
        ELSE IF n = 1 THEN ""
        ELSE w[n - 1].arg[Len(w[n - 1].arg)]

\* the attached annotations by ascending line, and within a line in the
\* order of the calls that attached them: [idx (0-based), annotation]
RECURSIVE RenderOrderFrom(_)
RenderOrderFrom(i) ==
    IF i > Len(lines) THEN <<>>
    ELSE LET own == SelectSeq(adds, LAMBDA a : Owner(lines, a.range.start) = i)
         IN  [k \in DOMAIN own |-> [idx |-> i - 1, annotation |-> own[k]]]
             \o RenderOrderFrom(i + 1)

RenderOrder == RenderOrderFrom(1)

\* C8: a rendering holds one block per attached annotation, as many blocks
\* as successful insertions, each the block of one annotation, by ascending
\* line and within a line in insertion order.
C8_OneBlockPerAnnotationInOrder ==
    Rendered =>
        LET order == RenderOrder
            blocks == Blocks
        IN  /\ EndsWithReset
            /\ Len(blocks) = Len(adds)
            /\ Len(blocks) = Len(order)
            /\ \A j \in DOMAIN blocks :
                   \E stylesheet \in Stylesheets :
                       FromFirstSetColor(blocks[j])
                       = AnnotationOps(lines[order[j].idx + 1], order[j].idx,
                                       order[j].annotation, filename, stylesheet, TRUE)

\* a list was rendered whose two annotations are on different lines, the one
\* on the later line attached first
C8_Witness ==
    /\ Rendered
    /\ Len(adds) = 2
    /\ Owner(lines, adds[1].range.start) > Owner(lines, adds[2].range.start)
    /\ Len(Blocks) = 2

\* C9: the output is the blocks, each starting with a byte that is no
\* newline and ending with exactly one newline, with exactly one newline
\* written between two consecutive blocks (before the later block's first
\* style is set), nothing before the first block and nothing after the
\* last; a list with no annotation renders to nothing.
C9_OneBlankLineBetweenBlocks ==
    Rendered =>
        LET blocks == Blocks
        IN  /\ adds = <<>> => stream = <<>>
            /\ EndsWithReset
            /\ \A j \in DOMAIN blocks :
                   LET body == FromFirstSetColor(blocks[j])
                   IN  /\ j = 1 => blocks[j] = body
                       /\ j > 1 => blocks[j] = <<Write(<<NL>>)>> \o body
                       /\ FirstWritten(body) \notin {"", NL}
                       /\ LastWritten(body) = NL
                       /\ BeforeLastWritten(body) \notin {"", NL}

\* a list was rendered whose two annotated lines have a line without
\* annotations between them
C9_Witness ==
    /\ Rendered
    /\ \E i, k, j \in DOMAIN lines :
           /\ i < k /\ k < j
           /\ lines[i].annotations # <<>>
           /\ lines[k].annotations = <<>>
           /\ lines[j].annotations # <<>>
    /\ Len(Blocks) = 2

\* a style is applied when the last call is made: a successful set_color
\* with no reset after it
StyledAtLastCall ==
    \E i \in 1..(Len(stream) - 1) :
        /\ stream[i].call.op = "set_color"
        /\ \A k \in (i + 1)..(Len(stream) - 1) : stream[k].call.op # "reset"

\* C10: when a write or set_color call fails after a style was applied, the
\* last call show makes on the sink before it returns the error is reset.
C10_ResetOnEveryExit ==
    (/\ pc = "shown"
     /\ result.kind = "IoError"
     /\ stream[Len(stream)].call.op \in {"write", "set_color"}
     /\ StyledAtLastCall)
    => \E i \in DOMAIN stream :
           /\ stream[i].call.op = "reset"
           /\ stream[i].ok
           /\ \E f \in 1..(i - 1) : ~stream[f].ok

\* ------------------------------------------------- the rows of the output
\* the bytes a sequence of calls writes, in order
RECURSIVE BytesWritten(_)
BytesWritten(calls) ==
    IF calls = <<>> THEN <<>>
    ELSE (IF Head(calls).op = "write" THEN Head(calls).arg ELSE <<>>)
         \o BytesWritten(Tail(calls))

\* the rows of a byte sequence: the runs of bytes its newlines end (and the
\* bytes after the last newline, if any), without the newlines
RECURSIVE Rows(_)
Rows(b) ==
    LET newlines == {i \in DOMAIN b : b[i] = NL}
    IN  IF b = <<>> THEN <<>>
        ELSE IF newlines = {} THEN <<b>>
        ELSE LET i == CHOOSE i \in newlines : \A j \in newlines : i <= j
             IN  <<SubSeq(b, 1, i - 1)>> \o Rows(SubSeq(b, i + 1, Len(b)))

Repeat(byte, n) == [i \in 1..n |-> byte]

\* the rows of the block of the j-th rendered annotation, from its header row
BlockRows(blocks, j) == Rows(BytesWritten(FromFirstSetColor(blocks[j])))

\* the line-number padding of the rows that carry no line number, then '|'
Gutter(idx) == Repeat(" ", Len(UsizeToString(idx + 1)) + 2) \o <<"|">>

CaretsUnderAnnotatedBytes(rows, line, idx, annotation, fname) ==
    LET linenr == UsizeToString(idx + 1)
        prefix == <<" ">> \o linenr \o <<" ", "|", " ">>
        offset == annotation.range.start - line.start
        first == Len(prefix) + offset + 1
        content_row == rows[Len(rows) - 1]
        caret_row == rows[Len(rows)]
    IN  /\ IsPrefix(prefix, content_row)
        /\ {c \in DOMAIN caret_row : caret_row[c] = "^"}
           = first..(first + RangeLen(annotation.range) - 1)
        /\ \A c \in first..(first + RangeLen(annotation.range) - 1) :
               /\ c \in DOMAIN caret_row
               /\ c \in DOMAIN content_row
               /\ c - Len(prefix) \in DOMAIN line.content
               /\ content_row[c] = line.content[c - Len(prefix)]
        /\ rows[2] = Repeat(" ", Len(linenr) + 1) \o <<"-", "-", ">", " ">>
                     \o fname \o <<":">> \o linenr \o <<":">>
                     \o UsizeToString(offset + 1)

\* C12: in the block of every attached annotation with a non-empty range the
\* carets of the underline row sit in exactly the output columns of the
\* annotated content bytes in the content row above it, the first caret
\* under content byte start - line.start, and the column reported in
\* '<filename>:<line>:<column>' is that offset plus 1.
C12_CaretsUnderAnnotatedBytes ==
    Rendered =>
        LET order == RenderOrder
            blocks == Blocks
        IN  /\ Len(blocks) = Len(order)
            /\ \A j \in DOMAIN blocks :
                   RangeLen(order[j].annotation.range) > 0
                   => CaretsUnderAnnotatedBytes(BlockRows(blocks, j),
                                                lines[order[j].idx + 1],
                                                order[j].idx,
                                                order[j].annotation, filename)
====
